---- MODULE Spec2Model ----
(***************************************************************************)
(* Model of the AI-usage compliance logger (src/src/extension.ts): the     *)
(* process-wide insertion log, the positional line diff and the attribution *)
(* of changed lines to tracked insertions.                                  *)
(*                                                                          *)
(* Text is modelled by TLA+ strings, which are sequences of characters:     *)
(* Len, SubSeq and \o act on them as on any sequence.                       *)
(***************************************************************************)
EXTENDS Integers, Sequences, FiniteSets, TLC

VARIABLES
    recentInsertions,   \* the module-level array recentInsertions (extension.ts:11)
    clock,              \* the wall clock read by new Date(), in ms
    pc,                 \* position of the in-flight save handler
    saveDoc,            \* the document the in-flight save handler was called with
    diffed,             \* the diff checkChangesAgainstCopilot holds before it analyses
    lastEvent           \* the record or analysis the most recent step made, if any

vars == <<recentInsertions, clock, pc, saveDoc, diffed, lastEvent>>

-----------------------------------------------------------------------------
(* Bounds of the model *)

MaxLog == 2         \* a qualifying insertion is accepted while the log is shorter
MaxTime == 60001    \* the clock stops advancing here

(* Program constants *)

INSERTION_WINDOW_MS == 60000
MIN_INSERTION_LENGTH == 5
CASE_INSENSITIVE_MIN == 5
PARTIAL_MATCH_MIN == 15
PREVIEW_LENGTH == 60

-----------------------------------------------------------------------------
(* String primitives of the JavaScript runtime, as the code uses them *)

charAt(s, i) == SubSeq(s, i, i)

Min(a, b) == IF a < b THEN a ELSE b
\* variant: the larger of two replaced by the smaller
Max_Smaller(a, b) == IF a < b THEN a ELSE b
Max(a, b) == IF a > b THEN a ELSE b

\* index of the first occurrence of the one-character string sep in s, 0 if none
RECURSIVE indexOfFrom(_, _, _)
indexOfFrom(s, sep, i) ==
    IF i > Len(s) THEN 0
    ELSE IF charAt(s, i) = sep THEN i
    ELSE indexOfFrom(s, sep, i + 1)

\* String.prototype.split with a one-character separator
RECURSIVE split(_, _)
split(s, sep) ==
    LET idx == indexOfFrom(s, sep, 1)
    IN  IF idx = 0 THEN <<s>>
        ELSE <<SubSeq(s, 1, idx - 1)>> \o split(SubSeq(s, idx + 1, Len(s)), sep)

WhiteSpace == {" ", "\t", "\n", "\r", "\f"}

RECURSIVE trimStart(_)
trimStart(s) ==
    IF Len(s) > 0 /\ charAt(s, 1) \in WhiteSpace
    THEN trimStart(SubSeq(s, 2, Len(s)))
    ELSE s

RECURSIVE trimEnd(_)
trimEnd(s) ==
    IF Len(s) > 0 /\ charAt(s, Len(s)) \in WhiteSpace
    THEN trimEnd(SubSeq(s, 1, Len(s) - 1))
    ELSE s

\* String.prototype.trim
trim(s) == trimEnd(trimStart(s))

UpperCase == "ABCDEFGHIJKLMNOPQRSTUVWXYZ"
LowerCase == "abcdefghijklmnopqrstuvwxyz"

lowerChar(c) ==
    IF \E i \in 1..Len(UpperCase) : charAt(UpperCase, i) = c
    THEN charAt(LowerCase, CHOOSE i \in 1..Len(UpperCase) : charAt(UpperCase, i) = c)
    ELSE c

\* String.prototype.toLowerCase
RECURSIVE toLowerCase(_)
toLowerCase(s) ==
    IF Len(s) = 0 THEN s
    ELSE lowerChar(charAt(s, 1)) \o toLowerCase(SubSeq(s, 2, Len(s)))

\* String.prototype.includes
includes(s, sub) ==
    \E i \in 0..(Len(s) - Len(sub)) : SubSeq(s, i + 1, i + Len(sub)) = sub

\* Array.prototype.map(l => l.trim())
mapTrim(lines) == [i \in 1..Len(lines) |-> trim(lines[i])]

\* document.fileName.split('/').pop() || document.fileName
baseName(fileName) ==
    LET parts == split(fileName, "/")
        last == parts[Len(parts)]
    IN  IF last # "" THEN last ELSE fileName

-----------------------------------------------------------------------------
(* Diff engine: calculateDetailedDifferences *)

\* variant: the branch for a line present only in the old revision is missing
deltaKind_DropsRemoved(oldLines, newLines, i) ==
    LET oldDefined == i + 1 <= Len(oldLines)
        newDefined == i + 1 <= Len(newLines)
    IN  IF ~oldDefined /\ newDefined THEN "added"
        ELSE IF oldDefined /\ newDefined /\ oldLines[i + 1] # newLines[i + 1] THEN "modified"
        ELSE "unchanged"

\* the if / else-if chain of the loop body at 0-based position i
deltaKind(oldLines, newLines, i) ==
    LET oldDefined == i + 1 <= Len(oldLines)
        newDefined == i + 1 <= Len(newLines)
    IN  IF ~oldDefined /\ newDefined THEN "added"
        ELSE IF oldDefined /\ ~newDefined THEN "removed"
        ELSE IF oldLines[i + 1] # newLines[i + 1] THEN "modified"
        ELSE "unchanged"

\* the for loop over positions 0..maxLines-1
RECURSIVE diffLoop(_, _, _, _)
diffLoop(oldLines, newLines, i, acc) ==
    IF i >= Max(Len(oldLines), Len(newLines)) THEN acc
    ELSE
      LET kind == deltaKind(oldLines, newLines, i)
          next ==
            IF kind = "added"
            THEN [acc EXCEPT !.added =
                    Append(@, [lineNumber |-> i + 1, content |-> newLines[i + 1]])]
            ELSE IF kind = "removed"
            THEN [acc EXCEPT !.removed =
                    Append(@, [lineNumber |-> i + 1, content |-> oldLines[i + 1]])]
            ELSE IF kind = "modified"
            THEN [acc EXCEPT !.modified =
                    Append(@, [lineNumber |-> i + 1,
                               oldContent |-> oldLines[i + 1],
                               newContent |-> newLines[i + 1]])]
            ELSE acc
      IN  diffLoop(oldLines, newLines, i + 1, next)

\* variant: unchanged lines counted from the longer revision
linesUnchanged_FromLonger(oldLines, newLines, modifiedLines) ==
    (IF Len(oldLines) > Len(newLines) THEN Len(oldLines) ELSE Len(newLines))
    - Len(modifiedLines)

\* statistics.linesUnchanged
linesUnchanged(oldLines, newLines, modifiedLines) ==
    Min(Len(oldLines), Len(newLines)) - Len(modifiedLines)

calculateDetailedDifferences(oldContent, newContent) ==
    LET oldLines == split(oldContent, "\n")
        newLines == split(newContent, "\n")
        d == diffLoop(oldLines, newLines, 0,
                      [added |-> <<>>, removed |-> <<>>, modified |-> <<>>])
    IN  [statistics |->
            [totalOldLines  |-> Len(oldLines),
             totalNewLines  |-> Len(newLines),
             linesAdded     |-> Len(d.added),
             linesRemoved   |-> Len(d.removed),
             linesModified  |-> Len(d.modified),
             linesUnchanged |-> linesUnchanged(oldLines, newLines, d.modified),
             netLineChange  |-> Len(newLines) - Len(oldLines),
             charDifference |-> Len(newContent) - Len(oldContent)],
         added      |-> d.added,
         removed    |-> d.removed,
         modified   |-> d.modified,
         oldContent |-> oldContent,
         newContent |-> newContent]

-----------------------------------------------------------------------------
(* Attribution engine: analyzeCopilotUsage *)

\* variant: the snapshot is not restricted to the file
filterByFile_AllFiles(insertions, fileName) == insertions

\* recentInsertions.filter(i => i.fileName === fileName)
RECURSIVE filterByFile(_, _)
filterByFile(insertions, fileName) ==
    IF insertions = <<>> THEN <<>>
    ELSE (IF Head(insertions).fileName = fileName THEN <<Head(insertions)>> ELSE <<>>)
         \o filterByFile(Tail(insertions), fileName)

\* variant: the exact comparison is missing
subLineMatches_NoExact(insLine, lineContent) ==
    \/ /\ toLowerCase(insLine) = toLowerCase(lineContent)
       /\ Len(lineContent) > CASE_INSENSITIVE_MIN
    \/ /\ Len(lineContent) > PARTIAL_MATCH_MIN
       /\ Len(insLine) > PARTIAL_MATCH_MIN
       /\ (includes(insLine, lineContent) \/ includes(lineContent, insLine))

\* the predicate of insertionLines.some(...): one trimmed sub-line against the line
subLineMatches(insLine, lineContent) ==
    \/ insLine = lineContent
    \/ /\ toLowerCase(insLine) = toLowerCase(lineContent)
       /\ Len(lineContent) > CASE_INSENSITIVE_MIN
    \/ /\ Len(lineContent) > PARTIAL_MATCH_MIN
       /\ Len(insLine) > PARTIAL_MATCH_MIN
       /\ (includes(insLine, lineContent) \/ includes(lineContent, insLine))

\* isMatch: some trimmed sub-line of the insertion's text matches the line
isMatch(insertion, lineContent) ==
    LET insertionLines == mapTrim(split(insertion.text, "\n"))
    IN  \E k \in 1..Len(insertionLines) : subLineMatches(insertionLines[k], lineContent)

\* `Line N: "<first 60 chars>..."` pushed to matchedChanges
matchedChange(lineNumber, lineContent) ==
    [lineNumber |-> lineNumber,
     preview |-> SubSeq(lineContent, 1, Min(Len(lineContent), PREVIEW_LENGTH))
                 \o (IF Len(lineContent) > PREVIEW_LENGTH THEN "..." ELSE "")]

\* the inner fileInsertions.forEach over one changed line; idx is 1-based
RECURSIVE insertionLoop(_, _, _, _, _)
insertionLoop(fileInsertions, changedLine, lineContent, idx, acc) ==
    IF idx > Len(fileInsertions) THEN acc
    ELSE
      LET next ==
            IF isMatch(fileInsertions[idx], lineContent)
            THEN [acc EXCEPT
                    !.foundMatch = TRUE,
                    !.insertionMatches[idx] = @ + 1,
                    !.copilotUsedCount = @ + 1,
                    !.matchedChanges =
                        Append(@, matchedChange(changedLine.lineNumber, lineContent)),
                    !.matchLog =
                        Append(@, [lineNumber |-> changedLine.lineNumber,
                                   insertion |-> idx])]
            ELSE acc
      IN  insertionLoop(fileInsertions, changedLine, lineContent, idx + 1, next)

\* the outer allChangedLines.forEach; n is the 1-based position in allChangedLines
RECURSIVE changedLineLoop(_, _, _, _)
changedLineLoop(fileInsertions, allChangedLines, n, acc) ==
    IF n > Len(allChangedLines) THEN acc
    ELSE
      LET changedLine == allChangedLines[n]
          lineContent == trim(changedLine.content)
          matched == insertionLoop(fileInsertions, changedLine, lineContent, 1,
                                   [acc EXCEPT !.foundMatch = FALSE])
          next ==
            IF Len(lineContent) = 0 THEN acc
            ELSE IF ~matched.foundMatch
            THEN [matched EXCEPT
                    !.manualChangesCount = @ + 1,
                    !.noMatchLog = Append(@, changedLine.lineNumber)]
            ELSE matched
      IN  changedLineLoop(fileInsertions, allChangedLines, n + 1, next)

\* differences.added then differences.modified (new side), as {lineNumber, content}
collectChangedLines(differences) ==
    differences.added
    \o [i \in 1..Len(differences.modified) |->
          [lineNumber |-> differences.modified[i].lineNumber,
           content    |-> differences.modified[i].newContent]]

\* variant: blank lines are counted too
countNonEmpty_CountsBlank(lines) == Len(lines)

\* allChangedLines.filter(l => l.content.trim().length > 0).length
RECURSIVE countNonEmpty(_)
countNonEmpty(lines) ==
    IF lines = <<>> THEN 0
    ELSE (IF Len(trim(Head(lines).content)) > 0 THEN 1 ELSE 0) + countNonEmpty(Tail(lines))

\* Math.round((copilotUsedCount / totalChanges) * 100), 0 when there is no change
copilotPercentage(copilotUsedCount, totalChanges) ==
    IF totalChanges > 0
    THEN (200 * copilotUsedCount + totalChanges) \div (2 * totalChanges)
    ELSE 0

analyzeCopilotUsage(differences, fileName, insertions) ==
    LET fileInsertions == filterByFile(insertions, fileName)
        allChangedLines == collectChangedLines(differences)
        start == [foundMatch         |-> FALSE,
                  copilotUsedCount   |-> 0,
                  manualChangesCount |-> 0,
                  matchedChanges     |-> <<>>,
                  matchLog           |-> <<>>,
                  noMatchLog         |-> <<>>,
                  insertionMatches   |-> [i \in 1..Len(fileInsertions) |-> 0]]
        tally ==
            IF Len(fileInsertions) > 0 /\ Len(allChangedLines) > 0
            THEN changedLineLoop(fileInsertions, allChangedLines, 1, start)
            ELSE [start EXCEPT !.manualChangesCount = countNonEmpty(allChangedLines)]
        totalChanges == tally.copilotUsedCount + tally.manualChangesCount
    IN  [fileInsertions     |-> fileInsertions,
         allChangedLines    |-> allChangedLines,
         copilotUsedCount   |-> tally.copilotUsedCount,
         manualChangesCount |-> tally.manualChangesCount,
         matchedChanges     |-> tally.matchedChanges,
         matchLog           |-> tally.matchLog,
         noMatchLog         |-> tally.noMatchLog,
         insertionMatches   |-> tally.insertionMatches,
         totalChanges       |-> totalChanges,
         copilotPercentage  |-> copilotPercentage(tally.copilotUsedCount, totalChanges)]

-----------------------------------------------------------------------------
(* Insertion tracker: trackTextInsertion *)

\* recentInsertions.filter(i => (now - i.timestamp.getTime()) < INSERTION_WINDOW_MS)
RECURSIVE filterRecent(_, _)
filterRecent(insertions, now) ==
    IF insertions = <<>> THEN <<>>
    ELSE (IF now - Head(insertions).timestamp < INSERTION_WINDOW_MS
          THEN <<Head(insertions)>> ELSE <<>>)
         \o filterRecent(Tail(insertions), now)

\* variant: the log is pruned on every change, appended to or not
trackChange_PrunesAlways(insertions, fileName, change, now) ==
    LET insertedText == change.text
        isInsertion == change.rangeLength = 0 /\ Len(insertedText) > 0
    IN  filterRecent(IF isInsertion /\ Len(insertedText) > MIN_INSERTION_LENGTH
                     THEN Append(insertions,
                                 [timestamp  |-> now,
                                  fileName   |-> fileName,
                                  text       |-> insertedText,
                                  lineNumber |-> change.startLine + 1])
                     ELSE insertions,
                     now)

\* the body of event.contentChanges.forEach for one change; the handler runs
\* within one reading of the clock, so new Date() gives now at both places
trackChange(insertions, fileName, change, now) ==
    LET insertedText == change.text
        isInsertion == change.rangeLength = 0 /\ Len(insertedText) > 0
    IN  IF isInsertion /\ Len(insertedText) > MIN_INSERTION_LENGTH
        THEN filterRecent(Append(insertions,
                                 [timestamp  |-> now,
                                  fileName   |-> fileName,
                                  text       |-> insertedText,
                                  lineNumber |-> change.startLine + 1]),
                          now)
        ELSE insertions

\* event.contentChanges.forEach: the log after the first n changes
RECURSIVE trackChanges(_, _, _, _, _)
trackChanges(insertions, fileName, changes, n, now) ==
    IF n = 0 THEN insertions
    ELSE trackChange(trackChanges(insertions, fileName, changes, n - 1, now),
                     fileName, changes[n], now)

-----------------------------------------------------------------------------
(* Inputs the host editor and the version-control backend can deliver *)

Documents ==
    { [fileName |-> "/w/a/main.py", languageId |-> "python"],
      [fileName |-> "/w/b/main.py", languageId |-> "python"],
      [fileName |-> "/w/util.py",   languageId |-> "python"],
      [fileName |-> "/w/notes.md",  languageId |-> "markdown"] }

NoDocument == [fileName |-> "", languageId |-> ""]

\* the most recent step neither recorded a change nor analysed a save
NoEvent == [op |-> "none"]

\* checkChangesAgainstCopilot holds no diff
NoDiff == [held |-> FALSE]

\* content changes: a deletion, a short insertion, a long insertion, a replacement
deletion    == [text |-> "",         rangeLength |-> 3, startLine |-> 0]
shortTyping == [text |-> "x = 2",    rangeLength |-> 0, startLine |-> 0]
completion  == [text |-> "return 1", rangeLength |-> 0, startLine |-> 1]
replacement == [text |-> "return 1", rangeLength |-> 3, startLine |-> 1]

ContentChanges == { deletion, shortTyping, completion, replacement }

\* one event carries no change, one change, or several (a multi-cursor edit)
ChangeLists ==
    {<<>>} \cup { <<c>> : c \in ContentChanges }
    \cup { <<completion, completion>>, <<completion, shortTyping>> }

\* what repo.show('HEAD', path) can return, and what the buffer can hold at a save
HeadContents == { "", "x = 2", "x = 2\nreturn 1" }
BufferTexts  == { "x = 2", "x = 2\nreturn 1", "X = 2\n\nRETURN 1 " }

\* the clock advances by one of these steps between handler runs
ClockSteps == { 30000, 30001 }

-----------------------------------------------------------------------------
(* The extension as a state machine *)

Init ==
    /\ recentInsertions = <<>>
    /\ clock = 0
    /\ pc = "idle"
    /\ saveDoc = NoDocument
    /\ diffed = NoDiff
    /\ lastEvent = NoEvent

\* variant: the handler could be suspended between its diff and its analysis
suspended_AlsoAfterDiff(position) == TRUE

\* the save handler is not running: none is in flight or it waits at an await.
\* Handlers run to completion, and checkChangesAgainstCopilot has no await
\* between calculateDetailedDifferences and analyzeCopilotUsage.
suspended(position) == position # "copilot:diffed"

\* time passes between two handler runs
Tick(d) ==
    /\ suspended(pc)
    /\ clock + d <= MaxTime
    /\ clock' = clock + d
    /\ lastEvent' = NoEvent
    /\ UNCHANGED <<recentInsertions, pc, saveDoc, diffed>>

\* onDidChangeTextDocument: runs to completion whenever no handler is running
ChangeTextDocument(document, changes) ==
    LET fileName == baseName(document.fileName)
        n == Len(changes)
        after == trackChanges(recentInsertions, fileName, changes, n, clock)
    IN  /\ suspended(pc)
        /\ IF document.languageId = "python" /\ n > 0
           THEN
             /\ Len(after) <= MaxLog
             /\ recentInsertions' = after
             /\ lastEvent' =
                  [op       |-> "change",
                   fileName |-> fileName,
                   change   |-> changes[n],
                   now      |-> clock,
                   before   |-> trackChanges(recentInsertions, fileName, changes, n - 1, clock)]
             /\ UNCHANGED <<clock, pc, saveDoc, diffed>>
           ELSE
             /\ lastEvent' = NoEvent
             /\ UNCHANGED <<recentInsertions, clock, pc, saveDoc, diffed>>

\* onDidSaveTextDocument up to the first await of checkChangesAgainstGit
SaveTextDocument(document) ==
    /\ pc = "idle"
    /\ IF document.languageId = "python"
       THEN /\ pc' = "git:ext"
            /\ saveDoc' = document
       ELSE UNCHANGED <<pc, saveDoc>>
    /\ lastEvent' = NoEvent
    /\ UNCHANGED <<recentInsertions, clock, diffed>>

\* where a stage that returns goes next: checkChangesAgainstCopilot, or the handler ends
stageDone(stage) == IF stage = "git" THEN "copilot:ext" ELSE "idle"

\* await getGitExtension() resumes, then getGitRepository(git)
GitExtensionResolved(stage, available, repositories) ==
    /\ pc = stage \o ":ext"
    /\ pc' = IF available /\ repositories > 0 THEN stage \o ":show" ELSE stageDone(stage)
    /\ saveDoc' = IF pc' = "idle" THEN NoDocument ELSE saveDoc
    /\ lastEvent' = NoEvent
    /\ UNCHANGED <<recentInsertions, clock, diffed>>

\* await getLastCommittedVersion() resumes. checkChangesAgainstGit diffs and
\* prints; checkChangesAgainstCopilot diffs and goes on to analyzeCopilotUsage.
\* With the diff it holds, the model remembers the log at that moment and whether
\* the step before was a record that changed the log while the baseline was awaited.
LastCommittedVersionResolved(stage, found, headContent, newContent) ==
    LET proceeds == found /\ headContent # ""
    IN  /\ pc = stage \o ":show"
        /\ pc' = IF stage = "copilot" /\ proceeds THEN "copilot:diffed"
                 ELSE stageDone(stage)
        /\ saveDoc' = IF pc' = "idle" THEN NoDocument ELSE saveDoc
        /\ diffed' =
             IF stage = "copilot" /\ proceeds
             THEN [held        |-> TRUE,
                   differences |-> calculateDetailedDifferences(headContent, newContent),
                   log         |-> recentInsertions,
                   afterRecord |-> /\ lastEvent.op = "change"
                                   /\ lastEvent.before # recentInsertions]
             ELSE NoDiff
        /\ lastEvent' = NoEvent
        /\ UNCHANGED <<recentInsertions, clock>>

\* analyzeCopilotUsage(differences, document, fileName), called right after the diff
AnalyzeCopilotUsage ==
    LET fileName == baseName(saveDoc.fileName)
    IN  /\ pc = "copilot:diffed"
        /\ pc' = "idle"
        /\ saveDoc' = NoDocument
        /\ diffed' = NoDiff
        /\ lastEvent' =
             [op          |-> "analyze",
              fileName    |-> fileName,
              now         |-> clock,
              before      |-> recentInsertions,
              differences |-> diffed.differences,
              logAtDiff   |-> diffed.log,
              afterRecord |-> diffed.afterRecord,
              report      |-> analyzeCopilotUsage(diffed.differences, fileName,
                                                  recentInsertions)]
        /\ UNCHANGED <<recentInsertions, clock>>

Next ==
    \/ \E d \in ClockSteps : Tick(d)
    \/ \E document \in Documents, changes \in ChangeLists :
          ChangeTextDocument(document, changes)
    \/ \E document \in Documents : SaveTextDocument(document)
    \/ \E stage \in {"git", "copilot"}, available \in BOOLEAN, repositories \in 0..1 :
          GitExtensionResolved(stage, available, repositories)
    \/ \E stage \in {"git", "copilot"}, found \in BOOLEAN,
          headContent \in HeadContents, newContent \in BufferTexts :
          LastCommittedVersionResolved(stage, found, headContent, newContent)
    \/ AnalyzeCopilotUsage

Spec == Init /\ [][Next]_vars

-----------------------------------------------------------------------------
(* The diff and attribution engines on their own: any two revisions of      *)
(* main.py against any short insertion list                                 *)

Texts ==
    { "",
      "x = 2",
      "x = 2\nreturn 1",
      "return 1\nx = 2\nreturn 1",
      "x = 2\nx = 2\nreturn 1",
      "X = 2\n\n  RETURN 1 \t",
      "x = 2\ntotal = compute(a, b)",
      "def foo():\n    return 1\n" }

InsertionEvents ==
    { [timestamp |-> 0, fileName |-> "main.py", lineNumber |-> 1, text |-> t] :
        t \in { "x = 2\nreturn 1",
                "def foo():\n    return 1",
                "    grand_total = compute(a, b)  # sum" } }
    \cup { [timestamp |-> 0, fileName |-> "util.py", lineNumber |-> 1,
            text |-> "return 1"] }

InsertionLists == UNION { [1..n -> InsertionEvents] : n \in 0..MaxLog }

InitFn ==
    /\ recentInsertions \in InsertionLists
    /\ clock = 0
    /\ pc = "fn"
    /\ saveDoc = [fileName |-> "/w/a/main.py", languageId |-> "python"]
    /\ diffed = NoDiff
    /\ \E oldContent \in Texts, newContent \in Texts :
          lastEvent = [op |-> "input", oldContent |-> oldContent,
                       newContent |-> newContent]

\* calculateDetailedDifferences followed by analyzeCopilotUsage, as in
\* checkChangesAgainstCopilot
DiffAndAnalyze ==
    LET fileName == baseName(saveDoc.fileName)
        differences == calculateDetailedDifferences(lastEvent.oldContent,
                                                    lastEvent.newContent)
    IN  /\ pc = "fn"
        /\ pc' = "fnDone"
        /\ lastEvent' =
             [op          |-> "analyze",
              fileName    |-> fileName,
              now         |-> clock,
              before      |-> recentInsertions,
              differences |-> differences,
              report      |-> analyzeCopilotUsage(differences, fileName,
                                                  recentInsertions)]
        /\ UNCHANGED <<recentInsertions, clock, saveDoc, diffed>>

NextFn == DiffAndAnalyze

SpecFn == InitFn /\ [][NextFn]_vars

-----------------------------------------------------------------------------
(* Properties *)

Analyzed == lastEvent.op = "analyze"

Range(f) == { f[i] : i \in DOMAIN f }

\* candidate lines of a diff result: added lines and new sides of modified lines
\* whose trimmed content is not empty
CandidateLines(d) ==
    { c \in { [lineNumber |-> x.lineNumber, content |-> x.content] : x \in Range(d.added) }
            \cup { [lineNumber |-> x.lineNumber, content |-> x.newContent] :
                     x \in Range(d.modified) } :
        trim(c.content) # "" }

\* the candidate line matches at least one event of the snapshot
MatchesSome(c, snapshot) ==
    \E k \in 1..Len(snapshot) : isMatch(snapshot[k], trim(c.content))

\* the events of the log recorded for a file, oldest first
SnapshotOf(log, fileName) == SelectSeq(log, LAMBDA e : e.fileName = fileName)

\* C1: attribution counts every candidate line exactly once: the tool count is
\* the number of candidate lines matching at least one insertion event, the
\* manual count the number matching none, and they add up to the number of
\* candidate lines.
C1_EachCandidateCountedOnce ==
    Analyzed =>
        LET r == lastEvent.report
            cands == CandidateLines(lastEvent.differences)
        IN  /\ r.copilotUsedCount =
                 Cardinality({ c \in cands : MatchesSome(c, r.fileInsertions) })
            /\ r.manualChangesCount =
                 Cardinality({ c \in cands : ~MatchesSome(c, r.fileInsertions) })
            /\ r.copilotUsedCount + r.manualChangesCount = Cardinality(cands)

\* C2: no line is attributed to the tool through insertion events that are all
\* older than the retention window when the save is analysed: every matched line
\* has a match with an event of age at most 60,000 ms.
C2_ExpiredEventExplainsNothing ==
    Analyzed =>
        LET r == lastEvent.report
            age(m) == lastEvent.now - r.fileInsertions[m.insertion].timestamp
        IN  \A m \in Range(r.matchLog) :
                \E live \in Range(r.matchLog) :
                    /\ live.lineNumber = m.lineNumber
                    /\ age(live) <= INSERTION_WINDOW_MS

\* the change is recorded: text inserted, nothing replaced, more than 5 characters
Qualifies(change) ==
    change.rangeLength = 0 /\ Len(change.text) > MIN_INSERTION_LENGTH

NewEvent(e) ==
    [timestamp  |-> e.now,
     fileName   |-> e.fileName,
     text       |-> e.change.text,
     lineNumber |-> e.change.startLine + 1]

\* C3: right after a qualifying record at time t the log is the earlier events of
\* age at most 60,000 ms, in their order, followed by the new event.
C3_PruneKeepsAgeUpToWindow ==
    (lastEvent.op = "change" /\ Qualifies(lastEvent.change)) =>
        recentInsertions =
            Append(SelectSeq(lastEvent.before,
                             LAMBDA e : lastEvent.now - e.timestamp <= INSERTION_WINDOW_MS),
                   NewEvent(lastEvent))

\* C4: an added line whose trimmed, non-empty content equals a trimmed sub-line of
\* some insertion event of the file's snapshot is reported as matched and never as
\* unmatched, whatever its length and whatever else the snapshot holds; the tool
\* count is then the number of reported matches, the manual count the number of
\* lines reported unmatched.
C4_ExactMatchIsAttributed ==
    Analyzed =>
        LET r == lastEvent.report
            snapshot == SnapshotOf(lastEvent.before, lastEvent.fileName)
            exact(line) ==
                \E k \in 1..Len(snapshot) :
                    \E sub \in Range(split(snapshot[k].text, "\n")) :
                        trim(sub) = trim(line.content)
        IN  \A line \in Range(lastEvent.differences.added) :
                (trim(line.content) # "" /\ exact(line)) =>
                    /\ \E m \in Range(r.matchLog) : m.lineNumber = line.lineNumber
                    /\ line.lineNumber \notin Range(r.noMatchLog)
                    /\ r.copilotUsedCount = Len(r.matchLog)
                    /\ r.manualChangesCount = Len(r.noMatchLog)

C4_Witness ==
    /\ Analyzed
    /\ Len(lastEvent.report.fileInsertions) >= 2
    /\ \E line \in Range(lastEvent.differences.added) :
          /\ line.content = "x = 2"
          /\ \E m \in Range(lastEvent.report.matchLog) : m.lineNumber = line.lineNumber

\* number of deltas of a diff result at a 1-based line number
DeltasAt(d, n) ==
    Cardinality({ i \in DOMAIN d.added : d.added[i].lineNumber = n })
    + Cardinality({ i \in DOMAIN d.removed : d.removed[i].lineNumber = n })
    + Cardinality({ i \in DOMAIN d.modified : d.modified[i].lineNumber = n })

LineCount(text) == Len(split(text, "\n"))

Longer(a, b) == IF a >= b THEN a ELSE b

\* C5: the deltas and the unchanged lines partition the line positions: the three
\* sequences and linesUnchanged add up to max(lineCount(A), lineCount(B)), with one
\* delta where the sides differ or one is absent and none where they are equal.
C5_DiffPartitionsPositions ==
    Analyzed =>
        LET d == lastEvent.differences
            oldLines == split(d.oldContent, "\n")
            newLines == split(d.newContent, "\n")
            maxLines == Longer(LineCount(d.oldContent), LineCount(d.newContent))
        IN  /\ Len(d.added) + Len(d.removed) + Len(d.modified)
                 + d.statistics.linesUnchanged = maxLines
            /\ \A n \in 1..maxLines :
                  DeltasAt(d, n) =
                      IF n <= Len(oldLines) /\ n <= Len(newLines)
                         /\ oldLines[n] = newLines[n]
                      THEN 0 ELSE 1
            /\ \A x \in Range(d.added) \cup Range(d.removed) \cup Range(d.modified) :
                  x.lineNumber \in 1..maxLines

C5_Witness ==
    /\ Analyzed
    /\ Len(lastEvent.differences.added) > 0
    /\ Len(lastEvent.differences.modified) > 0
    /\ lastEvent.differences.statistics.linesUnchanged > 0

\* C6: the added lines of diff(A,B) are the removed lines of diff(B,A), and the
\* removed lines of diff(A,B) the added lines of diff(B,A), entry by entry.
C6_DiffAntiSymmetric ==
    Analyzed =>
        LET d == lastEvent.differences
            back == calculateDetailedDifferences(d.newContent, d.oldContent)
        IN  /\ d.added = back.removed
            /\ d.removed = back.added

C6_Witness ==
    /\ Analyzed
    /\ Len(lastEvent.differences.removed) >= 2
    /\ Len(lastEvent.differences.modified) > 0

\* C7: against an empty insertion list the tool count is 0 and the manual count is
\* the number of added lines plus modified lines (new side) that are not blank.
C7_EmptyListAllManual ==
    (Analyzed /\ lastEvent.report.fileInsertions = <<>>) =>
        LET d == lastEvent.differences
        IN  /\ lastEvent.report.copilotUsedCount = 0
            /\ lastEvent.report.manualChangesCount =
                 Cardinality({ i \in DOMAIN d.added : trim(d.added[i].content) # "" })
                 + Cardinality({ i \in DOMAIN d.modified :
                                   trim(d.modified[i].newContent) # "" })

C7_Witness ==
    /\ Analyzed
    /\ lastEvent.report.fileInsertions = <<>>
    /\ lastEvent.report.manualChangesCount = 2
    /\ \E x \in Range(lastEvent.differences.added) : trim(x.content) = ""
    /\ Len(lastEvent.differences.modified) > 0

\* the log right after a record: the earlier events the code retains, then
\* exactly one new event
AppendedOne(e) ==
    recentInsertions =
        Append(SelectSeq(e.before, LAMBDA x : e.now - x.timestamp < INSERTION_WINDOW_MS),
               NewEvent(e))

\* C8 as stated: a record of at most 5 characters leaves the log as it was, a
\* record of more than 5 characters appends exactly one event with the current
\* timestamp and the given file identifier, text and line number.
C8_RecordDecidedByLength ==
    lastEvent.op = "change" =>
        IF Len(lastEvent.change.text) <= MIN_INSERTION_LENGTH
        THEN recentInsertions = lastEvent.before
        ELSE AppendedOne(lastEvent)

\* C8, amended: the record is a no-op also when the change replaces text; only an
\* insertion that replaces nothing and is longer than 5 characters appends.
C8_RecordFrame ==
    lastEvent.op = "change" =>
        IF Qualifies(lastEvent.change)
        THEN AppendedOne(lastEvent)
        ELSE recentInsertions = lastEvent.before

C8_Witness ==
    /\ lastEvent.op = "change"
    /\ lastEvent.change.rangeLength > 0
    /\ Len(lastEvent.change.text) > MIN_INSERTION_LENGTH
    /\ \E x \in Range(lastEvent.before) :
          lastEvent.now - x.timestamp > INSERTION_WINDOW_MS
    /\ recentInsertions = lastEvent.before

\* C9: an attribution run leaves the log as it found it, and its snapshot is the
\* log's events for the saved file, in log order.
C9_AnalysisOnlyReadsLog ==
    Analyzed =>
        /\ recentInsertions = lastEvent.before
        /\ lastEvent.report.fileInsertions = SnapshotOf(recentInsertions, lastEvent.fileName)

C9_Witness ==
    /\ Analyzed
    /\ Len(recentInsertions) = 2
    /\ Len(lastEvent.report.fileInsertions) = 1
    /\ recentInsertions[1].fileName # lastEvent.fileName
    /\ lastEvent.report.copilotUsedCount > 0

\* the new text is the old text with one line put in front
TopInsertion(d) ==
    LET oldLines == split(d.oldContent, "\n")
        newLines == split(d.newContent, "\n")
    IN  /\ Len(newLines) = Len(oldLines) + 1
        /\ \A i \in 1..Len(oldLines) : newLines[i + 1] = oldLines[i]

ModifiedPositions(d) == { x.lineNumber : x \in Range(d.modified) }

\* C10 as stated: a line inserted at the top of L1..Ln makes every one of the n
\* shared positions Modified, with one Added at line n+1, nothing Removed and no
\* line unchanged.
C10_TopInsertionModifiesAll ==
    (Analyzed /\ TopInsertion(lastEvent.differences)) =>
        LET d == lastEvent.differences
            n == LineCount(d.oldContent)
        IN  /\ ModifiedPositions(d) = 1..n
            /\ Len(d.modified) = n
            /\ d.added = <<[lineNumber |-> n + 1, content |-> split(d.oldContent, "\n")[n]]>>
            /\ d.removed = <<>>
            /\ d.statistics.linesUnchanged = 0

\* C10, amended: the Modified positions are the shared positions whose new line
\* differs from the old one (all n of them when X # L1 and no line equals its
\* successor); the others are unchanged; one Added at line n+1, nothing Removed.
C10_TopInsertionModifiesDiffering ==
    (Analyzed /\ TopInsertion(lastEvent.differences)) =>
        LET d == lastEvent.differences
            oldLines == split(d.oldContent, "\n")
            newLines == split(d.newContent, "\n")
            n == Len(oldLines)
            differing == { i \in 1..n : newLines[i] # oldLines[i] }
        IN  /\ ModifiedPositions(d) = differing
            /\ Len(d.modified) = Cardinality(differing)
            /\ d.added = <<[lineNumber |-> n + 1, content |-> oldLines[n]]>>
            /\ d.removed = <<>>
            /\ d.statistics.linesUnchanged = n - Cardinality(differing)
            /\ (differing = 1..n) =>
                  (Len(d.modified) = n /\ d.statistics.linesUnchanged = 0)

C10_Witness ==
    /\ Analyzed
    /\ TopInsertion(lastEvent.differences)
    /\ LineCount(lastEvent.differences.oldContent) = 2
    /\ Len(lastEvent.differences.modified) = 2
    /\ lastEvent.differences.statistics.linesUnchanged = 0

\* the file identifiers the log can hold
FileIdentifiers == { baseName(document.fileName) : document \in Documents }

\* C12: a qualifying record for file X changes the snapshot of any other file Y
\* only by pruning: the snapshot of Y afterwards is its earlier events of age at
\* most 60,000 ms, in their order, and nothing else.
C12_OtherFileOnlyPruned ==
    (lastEvent.op = "change" /\ Qualifies(lastEvent.change)) =>
        \A y \in FileIdentifiers \ {lastEvent.fileName} :
            SnapshotOf(recentInsertions, y) =
                SelectSeq(SnapshotOf(lastEvent.before, y),
                          LAMBDA e : lastEvent.now - e.timestamp <= INSERTION_WINDOW_MS)


\* C11: within one save pipeline no record is processed between the diff and the
\* read of the log that attributes it: while the handler holds its diff the log is
\* the log of the moment the diff was computed, and the analysis reads exactly the
\* snapshot of that log, also when a record was processed during the baseline fetch.
C11_SnapshotIsLogAtDiff ==
    /\ pc = "copilot:diffed" => recentInsertions = diffed.log
    /\ Analyzed =>
         /\ lastEvent.before = lastEvent.logAtDiff
         /\ lastEvent.report.fileInsertions =
                SnapshotOf(lastEvent.logAtDiff, lastEvent.fileName)

\* an analysis whose baseline fetch was interleaved with a record it then reads
C11_Witness ==
    /\ Analyzed
    /\ lastEvent.afterRecord
    /\ Len(lastEvent.report.fileInsertions) > 0
    /\ lastEvent.report.totalChanges > 0

====
